---- MODULE Spec2Model ----
(***************************************************************************)
(* A model of node-inspector's front-end command dispatcher                *)
(* (lib/FrontendCommandHandler.js) and of its debugger domain handler      *)
(* (DebuggerAgent).  Every effect the two make on their collaborators      *)
(* (front-end channel, wire client, break notifier, script registry,       *)
(* console) is appended, in program order, to the history `trace`.         *)
(***************************************************************************)
EXTENDS Integers, Sequences, FiniteSets, TLC

\* ------------------------------------------------------------------ bounds
\* how many commands the front end dispatches in one run
MaxCmds == 2
\* how many breakpoints the backend lists at most
MaxBps == 2
\* how many scripts the backend lists at most
MaxScripts == 1
\* how many bootstrap runs the 'connect' notifications start at most
MaxRuns == 1
\* how many actual locations the backend reports for one breakpoint at most
MaxLocs == 2
\* how many call frames the break notifier fetches at most
MaxFrames == 1

\* ------------------------------------------------------- JavaScript values
\* scalars (ids, errors, step actions, property lookups)
Undefined == "undefined"
Null == "null"
\* a command without an id: messageObject.id is undefined
NoId == -1
\* a result (or an argument object) that is undefined / null
NoResult == [undefined |-> TRUE]
\* the params of a command that carries none the handler reads
NoParams == [none |-> TRUE]
\* the message of a failed backend request
BackendError == "backend error"
\* the message the backend answers an expression that threw with
ThrownMessage == "ReferenceError: x is not defined"

\* mutation (C2): only 0 is taken for a missing id
FalsyId_OnlyZero(id) == id = 0

\* !requestId: undefined and 0 are both falsy
FalsyId(id) == id = NoId \/ id = 0

\* !x for a scalar that is undefined, null or a non-empty string
Falsy(x) == x = Undefined \/ x = Null

\* x != null: neither null nor undefined
NotNull(x) == x # Null /\ x # Undefined

\* Number.prototype.toString: the decimal digits of a natural number
Digits == <<"0", "1", "2", "3", "4", "5", "6", "7", "8", "9">>
RECURSIVE NumberToString(_)
NumberToString(n) ==
  IF n < 10 THEN Digits[n + 1] ELSE NumberToString(n \div 10) \o Digits[(n % 10) + 1]

\* Number(s) for a string of one decimal digit
ToNumber(s) == CHOOSE n \in 0..9 : Digits[n + 1] = s

VARIABLES
  specialCommands, \* this._specialCommands: full method name -> entry
  agents,          \* this._agents: domain name -> handler
  cmds,            \* the commands dispatched so far (a command's index names it)
  trace,           \* per command: every effect made while dispatching it or
                   \* completing it, in program order
  boot,            \* the connect-time bootstrap runs, each with the effects it
                   \* made, in program order
  pending,         \* backend requests the wire client has not answered yet
  listeners,       \* the 'connect' listeners on the wire client (enable commands)
  connectCalls,    \* connect() calls whose 'connect' notification is still due
  connected,       \* the wire client holds a connection
  isRunning,       \* debuggerClient.isRunning
  callbackForNextBreak,
                   \* breakEventHandler.callbackForNextBreak: <<>> when unset,
                   \* <<c>> when it holds the callback command c armed
  continueToLocationBreakpointId
                   \* breakEventHandler.continueToLocationBreakpointId: <<>>
                   \* when unset, <<id>> otherwise

vars == <<specialCommands, agents, cmds, trace, boot, pending, listeners,
          connectCalls, connected, isRunning, callbackForNextBreak,
          continueToLocationBreakpointId>>

\* ------------------------------------------------------------ the history
\* pl names the bootstrap run an effect belongs to (0: none, a command's own)
RespEv(c, id, error, result) ==
  [kind |-> "response", cmd |-> c, id |-> id, error |-> error, result |-> result]
EventEv(c, method) == [kind |-> "event", cmd |-> c, method |-> method]
BacktraceEv(c, filter) == [kind |-> "backtrace", cmd |-> c, filter |-> filter]
LogEv(c, msg) == [kind |-> "log", cmd |-> c, msg |-> msg]
InvokeEv(c, method) == [kind |-> "invoke", cmd |-> c, method |-> method]
\* the completion callback of command c ran
DoneEv(c, error, result) == [kind |-> "done", cmd |-> c, error |-> error, result |-> result]
RequestEv(r) == [kind |-> "request", cmd |-> r.cmd, rid |-> r.rid, name |-> r.name,
                 arg |-> r.arg, k |-> r.k]
ReplyEv(r, err, body) == [kind |-> "reply", cmd |-> r.cmd, rid |-> r.rid,
                          name |-> r.name, k |-> r.k, err |-> err, body |-> body]
ResetEv(c) == [kind |-> "reset", cmd |-> c]
AddScriptEv(c, s) == [kind |-> "addScript", cmd |-> c, script |-> s]
\* frontendClient.sendLogToConsole(level, text)
ConsoleEv(c, level, text) == [kind |-> "console", cmd |-> c, level |-> level, text |-> text]
\* breakEventHandler.callbackForNextBreak was assigned the callback of command
\* c; over is what the slot held until then
ArmEv(c, over) == [kind |-> "arm", cmd |-> c, over |-> over]
\* the break notifier called the callback command c had armed
BreakEv(c) == [kind |-> "break", cmd |-> c]
\* breakEventHandler.continueToLocationBreakpointId was assigned id
ContinueToEv(c, id) == [kind |-> "continueTo", cmd |-> c, id |-> id]
\* the run state of the backend when the code read it
IsRunningEv(c, running) == [kind |-> "isRunning", cmd |-> c, running |-> running]

\* the places of a history that hold an entry of the given kind
Kind(h, kind) == {i \in 1..Len(h) : h[i].kind = kind}

\* the effects of one synchronous run of code: history entries, requests handed
\* to the wire client, 'connect' listeners added, connect() and close() calls,
\* and the values written, in order, to the two slots of the break notifier
Eff(ev, rq) == [ev |-> ev, rq |-> rq, listen |-> <<>>, connect |-> 0, close |-> FALSE,
                arm |-> <<>>, contTo |-> <<>>]
Then(a, b) == [ev |-> a.ev \o b.ev, rq |-> a.rq \o b.rq, listen |-> a.listen \o b.listen,
               connect |-> a.connect + b.connect, close |-> a.close \/ b.close,
               arm |-> a.arm \o b.arm, contTo |-> a.contTo \o b.contTo]
\* a slot after the writes ws: the last one stays
Written(slot, ws) == IF ws = <<>> THEN slot ELSE ws[Len(ws)]
Nothing == Eff(<<>>, <<>>)

\* the requests of one thread of control (a command, a bootstrap run) are
\* numbered in the order they are issued
NumberEv(ev, base) ==
  [i \in 1..Len(ev) |->
     IF ev[i].kind = "request"
     THEN [ev[i] EXCEPT !.rid = base + Cardinality(Kind(SubSeq(ev, 1, i), "request"))]
     ELSE ev[i]]
NumberRq(rq, base) == {[rq[i] EXCEPT !.rid = base + i] : i \in 1..Len(rq)}

\* debuggerClient.request(name, arg, callback): k names the callback, rest and pl
\* are what the callback's closure holds (the items left of a serial loop, the
\* bootstrap run it belongs to)
Request(c, name, arg, k, rest, pl) ==
  LET r == [rid |-> 0, cmd |-> c, name |-> name, arg |-> arg, k |-> k,
            rest |-> rest, pl |-> pl]
  IN Eff(<<RequestEv(r)>>, <<r>>)

\* no request: what a run that answers none removes from the wire client
NoRequest == [rid |-> 0, cmd |-> 0, name |-> "", arg |-> [none |-> TRUE], k |-> "",
              rest |-> <<>>, pl |-> 0]

\* one synchronous run of the code of command c takes effect: the answered
\* request leaves the wire client, the new ones enter it, the history grows
Apply(c, e, r) ==
  LET old == IF c \in DOMAIN trace THEN trace[c] ELSE <<>>
      base == Cardinality(Kind(old, "request"))
  IN /\ trace' = [d \in DOMAIN trace \cup {c} |->
                    IF d = c THEN old \o NumberEv(e.ev, base) ELSE trace[d]]
     /\ pending' = (pending \ {r}) \cup NumberRq(e.rq, base)
     /\ listeners' = listeners \o e.listen
     /\ connectCalls' = connectCalls + e.connect
     /\ connected' = IF e.close THEN FALSE ELSE connected
     /\ callbackForNextBreak' = Written(callbackForNextBreak, e.arm)
     /\ continueToLocationBreakpointId' = Written(continueToLocationBreakpointId, e.contTo)
     /\ boot' = boot

\* the same for one run of a bootstrap callback
ApplyBoot(e, r) ==
  LET base == Cardinality(Kind(boot[r.pl].hist, "request"))
  IN /\ boot' = [boot EXCEPT ![r.pl].hist = @ \o NumberEv(e.ev, base)]
     /\ pending' = (pending \ {r}) \cup NumberRq(e.rq, base)
     /\ UNCHANGED <<trace, listeners, connectCalls, connected, callbackForNextBreak,
                     continueToLocationBreakpointId>>

\* ------------------------------------------------- FrontendCommandHandler
\* fullMethodName.split('.') for the method names the front end sends here
SplitName(m) ==
  CASE m = "Network.enable" -> <<"Network", "enable">>
    [] m = "Worker.canInspectWorkers" -> <<"Worker", "canInspectWorkers">>
    [] m = "toString" -> <<"toString", Undefined>>
    [] m = "Bogus.foo" -> <<"Bogus", "foo">>
    [] m = "Debugger.bogus" -> <<"Debugger", "bogus">>
    [] m = "Debugger._frontendClient" -> <<"Debugger", "_frontendClient">>
    [] m = "Debugger.canSetScriptSource" -> <<"Debugger", "canSetScriptSource">>
    [] m = "Debugger.setOverlayMessage" -> <<"Debugger", "setOverlayMessage">>
    [] m = "Debugger.enable" -> <<"Debugger", "enable">>
    [] m = "Debugger.disable" -> <<"Debugger", "disable">>
    [] m = "Debugger.resume" -> <<"Debugger", "resume">>
    [] m = "Debugger.pause" -> <<"Debugger", "pause">>
    [] m = "Debugger.stepOver" -> <<"Debugger", "stepOver">>
    [] m = "Debugger.stepInto" -> <<"Debugger", "stepInto">>
    [] m = "Debugger.stepOut" -> <<"Debugger", "stepOut">>
    [] m = "Debugger.setPauseOnExceptions" -> <<"Debugger", "setPauseOnExceptions">>
    [] m = "Debugger.setBreakpointByUrl" -> <<"Debugger", "setBreakpointByUrl">>
    [] m = "Debugger.continueToLocation" -> <<"Debugger", "continueToLocation">>
    [] m = "Debugger.setBreakpointsActive" -> <<"Debugger", "setBreakpointsActive">>
    [] m = "Debugger.evaluateOnCallFrame" -> <<"Debugger", "evaluateOnCallFrame">>
    [] m = "Debugger.setScriptSource" -> <<"Debugger", "setScriptSource">>

\* what every object literal inherits from Object.prototype: obj[key] finds
\* these although nothing was stored under them
ObjectPrototypeProps ==
  {"constructor", "toString", "toLocaleString", "valueOf", "hasOwnProperty",
   "isPrototypeOf", "propertyIsEnumerable"}
InheritedProp == [inherited |-> TRUE]

\* the entry of a no-op command ({}: its result is undefined) and of a query
NoopEntry == [result |-> NoResult]
QueryEntry(result) == [result |-> result]

\* _initializeRegistry: the overrides the constructor registers
InitialSpecialCommands ==
  [m \in {"Network.enable", "Console.enable", "Database.enable", "DOMStorage.enable",
          "DOM.hideHighlight", "Inspector.enable", "Profiler.enable", "CSS.enable",
          "CSS.getSupportedCSSProperties", "Worker.canInspectWorkers"} |->
     CASE m = "CSS.getSupportedCSSProperties" -> QueryEntry([cssProperties |-> <<>>])
       [] m = "Worker.canInspectWorkers" -> QueryEntry([result |-> FALSE])
       [] OTHER -> NoopEntry]

\* _initializeRegistry: the domain handlers the constructor registers
InitialAgents ==
  [d \in {"Debugger", "Runtime", "Page"} |->
     CASE d = "Debugger" -> "DebuggerAgent"
       [] d = "Runtime" -> "RuntimeAgent"
       [] d = "Page" -> "PageAgent"]

\* this._specialCommands[fullMethodName]
SpecialCommand(m) ==
  IF m \in DOMAIN specialCommands THEN specialCommands[m]
  ELSE IF m \in ObjectPrototypeProps THEN InheritedProp
  ELSE NoResult

\* this._specialCommands[fullMethodName].result
ResultOf(entry) == IF entry = InheritedProp THEN NoResult ELSE entry.result

\* this._agents[domainName]
Agent(d) ==
  IF d \in DOMAIN agents THEN agents[d]
  ELSE IF d \in ObjectPrototypeProps THEN "inherited"
  ELSE Undefined

\* the functions of DebuggerAgent.prototype and the fields its constructor sets
DebuggerAgentFunctions ==
  {"canSetScriptSource", "enable", "_onDebuggerConnect", "_removeAllBreakpoints",
   "_reloadScripts", "_sendBacktraceIfPaused", "disable", "resume", "_sendContinue",
   "pause", "stepOver", "stepInto", "stepOut", "continueToLocation", "getScriptSource",
   "setScriptSource", "setPauseOnExceptions", "setBreakpointByUrl", "removeBreakpoint",
   "setBreakpointsActive", "setOverlayMessage", "evaluateOnCallFrame",
   "getFunctionDetails"}
DebuggerAgentFields ==
  {"_frontendClient", "_debuggerClient", "_breakEventHandler", "_scriptManager"}

\* typeof agent[methodName]
TypeOfProp(agent, methodName) ==
  IF agent = "DebuggerAgent" /\ methodName \in DebuggerAgentFunctions THEN "function"
  ELSE IF agent = "DebuggerAgent" /\ methodName \in DebuggerAgentFields THEN "object"
  ELSE Undefined

\* _handleMethodResult(requestId, fullMethodName, error, result): what it does
\* to the front-end channel and the console.  The local `response` is declared
\* and never assigned.
HandleMethodResult(c, requestId, fullMethodName, error, result) ==
  LET response == Undefined
  IN IF FalsyId(requestId)
     THEN IF response # Undefined
          THEN <<LogEv(c, "Warning: discarded result")>>
          ELSE <<>>
     ELSE <<RespEv(c, requestId, error, result)>>

\* the completion callback handleCommand hands to the handler method
Callback(c, cmd, error, result) ==
  Eff(<<DoneEv(c, error, result)>>
        \o HandleMethodResult(c, cmd.id, cmd.method, error, result), <<>>)

\* ----------------------------------------------------------- async library
\* async.eachSeries(items, iterator, done), one turn of it: the iterator runs
\* on the next item, or done() runs when none is left; iterated[i] is what the
\* iterator does on item i, whose next() finds the items after it
EachSeries(items, iterated, done) ==
  IF items = <<>> THEN done ELSE iterated[1]
RestAfter(items, i) == SubSeq(items, i + 1, Len(items))

\* --------------------------------------------------------- DebuggerAgent

canSetScriptSource(c, cmd) == Callback(c, cmd, Null, [result |-> TRUE])

\* enable: a 'connect' listener is added, then connect() is called
enable(c, cmd) == [Nothing EXCEPT !.listen = <<c>>, !.connect = 1]

\* _sendBacktraceIfPaused, the third task of the waterfall; its done() ends
\* the waterfall, which has no final callback
sendBacktraceIfPaused(c, pl) ==
  Then(Eff(<<IsRunningEv(c, isRunning)>>, <<>>),
       IF ~isRunning THEN Eff(<<BacktraceEv(c, Null)>>, <<>>) ELSE Nothing)

\* _reloadScripts, the second task of the waterfall
reloadScripts(c, pl) ==
  Then(Eff(<<ResetEv(c)>>, <<>>),
       Request(c, "scripts", [includeSource |-> FALSE, types |-> 4], "reload", <<>>, pl))

\* removeOneBreakpoint(bp, next) inside _removeAllBreakpoints
removeOneBreakpoint(c, pl, bp, rest) ==
  Request(c, "clearbreakpoint", [breakpoint |-> bp.number], "rmOne", rest, pl)

\* _removeAllBreakpoints, the first task of the waterfall
removeAllBreakpoints(c, pl) ==
  Request(c, "listbreakpoints", NoParams, "rmList", <<>>, pl)

\* _onDebuggerConnect: async.waterfall starts its first task
onDebuggerConnect(c, pl) == removeAllBreakpoints(c, pl)

\* disable: close(), then done()
disable(c, cmd) ==
  Then([Nothing EXCEPT !.close = TRUE], Callback(c, cmd, Undefined, NoResult))

\* _sendContinue(stepAction, done)
sendContinue(c, stepAction) ==
  LET args == IF ~Falsy(stepAction) THEN [stepaction |-> stepAction] ELSE NoResult
  IN Request(c, "continue", args, "continue", <<>>, 0)

resume(c, cmd) == sendContinue(c, Undefined)
stepOver(c, cmd) == sendContinue(c, "next")
stepInto(c, cmd) == sendContinue(c, "in")
stepOut(c, cmd) == sendContinue(c, "out")

pause(c, cmd) == Request(c, "suspend", NoParams, "suspend", <<>>, 0)

setOverlayMessage(c, cmd) == Callback(c, cmd, Undefined, NoResult)

\* the iterator of setPauseOnExceptions
setExceptionBreak(c, arg, rest) ==
  Request(c, "setexceptionbreak", arg, "setexceptionbreak", rest, 0)

\* mutation (C10): 'all' is taken to include 'uncaught'
setPauseOnExceptions_AllIncludesUncaught(c, cmd) ==
  LET args == << [type |-> "all", enabled |-> cmd.params.state = "all"],
                 [type |-> "uncaught", enabled |-> cmd.params.state \in {"all", "uncaught"}] >>
      iterated == [i \in 1..Len(args) |-> setExceptionBreak(c, args[i], RestAfter(args, i))]
  IN EachSeries(args, iterated, Callback(c, cmd, Undefined, NoResult))

setPauseOnExceptions(c, cmd) ==
  LET args == << [type |-> "all", enabled |-> cmd.params.state = "all"],
                 [type |-> "uncaught", enabled |-> cmd.params.state = "uncaught"] >>
      iterated == [i \in 1..Len(args) |-> setExceptionBreak(c, args[i], RestAfter(args, i))]
  IN EachSeries(args, iterated, Callback(c, cmd, Undefined, NoResult))

\* convert.inspectorUrlToV8Name(url): the file name behind a file:// url
inspectorUrlToV8Name(url) ==
  CASE url = "file:///a.js" -> "/a.js"
    [] OTHER -> url

\* convert.v8LocationToInspectorLocation(v8loc)
v8LocationToInspectorLocation(v8loc) ==
  [scriptId |-> NumberToString(v8loc.script_id), lineNumber |-> v8loc.line,
   columnNumber |-> v8loc.column]

\* convert.v8ErrorToInspectorError(message): the message wrapped as an object
v8ErrorToInspectorError(message) ==
  [type |-> "object", objectId |-> "ERROR", className |-> "Error", description |-> message]

\* convert.v8ResultToInspectorResult(result)
v8ResultToInspectorResult(result) ==
  [type |-> result.type, value |-> result.value,
   description |-> NumberToString(result.value)]

evaluateOnCallFrame(c, cmd) ==
  LET params == cmd.params
      frame == ToNumber(params.callFrameId)
  IN Request(c, "evaluate", [expression |-> params.expression, frame |-> frame],
             "evaluate", <<>>, 0)

setBreakpointsActive(c, cmd) ==
  Request(c, "listbreakpoints", NoParams, "setBreakpointsActive", <<>>, 0)

\* setBreakpointState(bp, next) inside setBreakpointsActive
setBreakpointState(c, params, bp, rest) ==
  LET req == [breakpoint |-> bp.number, enabled |-> params.active]
  IN Request(c, "changebreakpoint", req, "changebreakpoint", rest, 0)

\* convert.inspectorScriptIdToV8Id(scriptId): the number a one-digit id spells
inspectorScriptIdToV8Id(scriptId) == CHOOSE n \in 0..9 : Digits[n + 1] = scriptId

continueToLocation(c, cmd) ==
  LET params == cmd.params
      requestParams == [type |-> "scriptId",
                        target |-> inspectorScriptIdToV8Id(params.location.scriptId),
                        line |-> params.location.lineNumber,
                        column |-> params.location.columnNumber]
  IN Request(c, "setbreakpoint", requestParams, "continueToLocation", <<>>, 0)

setScriptSource(c, cmd) ==
  LET params == cmd.params
  IN Request(c, "changelive",
             [script_id |-> inspectorScriptIdToV8Id(params.scriptId),
              new_source |-> params.scriptSource, preview_only |-> FALSE],
             "changelive", <<>>, 0)

\* sendResponse(callframes) inside handleChangeLiveResponse; a call without an
\* argument is given <<>> here, which `callframes || []` makes of it
sendResponse(c, response, callframes) ==
  Callback(c, cmds[c], Null, [callFrames |-> callframes, result |-> response.result])

\* sendResponseWithCallStack(): the call frames are asked of the break
\* notifier; its callback keeps the changelive response
sendResponseWithCallStack(c, response) ==
  Request(c, "fetchCallFrames", NoParams, "fetchCallFrames", <<response>>, 0)

\* the function stepIntoAndSendResponse stores in callbackForNextBreak
nextBreakCallback(c, response) == [cmd |-> c, response |-> response]

\* mutation (C17): a second callback is queued behind the pending one
stepIntoAndSendResponse_Queue(c, response) ==
  Then([Eff(<<ArmEv(c, callbackForNextBreak)>>, <<>>)
          EXCEPT !.arm = <<callbackForNextBreak \o <<nextBreakCallback(c, response)>> >>],
       Request(c, "continue", [stepAction |-> "in"], "liveStep", <<response>>, 0))

\* stepIntoAndSendResponse(): the callback is armed, then the step is requested
stepIntoAndSendResponse(c, response) ==
  Then([Eff(<<ArmEv(c, callbackForNextBreak)>>, <<>>)
          EXCEPT !.arm = << <<nextBreakCallback(c, response)>> >>],
       Request(c, "continue", [stepAction |-> "in"], "liveStep", <<response>>, 0))

\* mutation (C11): urlRegex is tested for truthiness, so null and '' pass
setBreakpointByUrl_TruthyRegex(c, cmd) ==
  LET params == cmd.params
      requestParams == [type |-> "script", target |-> inspectorUrlToV8Name(params.url),
                        line |-> params.lineNumber, column |-> params.columnNumber,
                        condition |-> params.condition]
  IN IF ~Falsy(params.urlRegex) /\ params.urlRegex # ""
     THEN Callback(c, cmd, "Error: setBreakpointByUrl using urlRegex is not implemented.",
                   NoResult)
     ELSE Request(c, "setbreakpoint", requestParams, "setBreakpointByUrl", <<>>, 0)

setBreakpointByUrl(c, cmd) ==
  LET params == cmd.params
      requestParams == [type |-> "script", target |-> inspectorUrlToV8Name(params.url),
                        line |-> params.lineNumber, column |-> params.columnNumber,
                        condition |-> params.condition]
  IN IF params.urlRegex # Undefined
     THEN Callback(c, cmd, "Error: setBreakpointByUrl using urlRegex is not implemented.",
                   NoResult)
     ELSE Request(c, "setbreakpoint", requestParams, "setBreakpointByUrl", <<>>, 0)

\* ------------------------------------------- DebuggerAgent: the callbacks
\* mutation (C12): stack_modified is looked at before stack_update_needs_step_in
handleChangeLiveResponse_ModifiedFirst(r, err, response) ==
  IF ~Falsy(err)
  THEN Callback(r.cmd, cmds[r.cmd], err, NoResult)
  ELSE IF response.result.stack_modified
  THEN sendResponseWithCallStack(r.cmd, response)
  ELSE IF response.result.stack_update_needs_step_in
  THEN stepIntoAndSendResponse(r.cmd, response)
  ELSE sendResponse(r.cmd, response, <<>>)

\* handleChangeLiveResponse in setScriptSource
handleChangeLiveResponse(r, err, response) ==
  IF ~Falsy(err)
  THEN Callback(r.cmd, cmds[r.cmd], err, NoResult)
  ELSE IF response.result.stack_update_needs_step_in
  THEN stepIntoAndSendResponse(r.cmd, response)
  ELSE IF response.result.stack_modified
  THEN sendResponseWithCallStack(r.cmd, response)
  ELSE sendResponse(r.cmd, response, <<>>)

\* the callback of fetchCallFrames in sendResponseWithCallStack
onFetchCallFrames(r, err, response) ==
  IF ~Falsy(err)
  THEN Then(Eff(<<ConsoleEv(r.cmd, "error",
                            "Cannot update stack trace after a script changed")>>, <<>>),
            sendResponse(r.cmd, r.rest[1], <<>>))
  ELSE sendResponse(r.cmd, r.rest[1], response)

\* the callback of continue in stepIntoAndSendResponse
onLiveStep(r, err, response) ==
  IF ~Falsy(err)
  THEN Then(Eff(<<ConsoleEv(r.cmd, "error",
                            "Cannot execute step-into after a script changed")>>, <<>>),
            sendResponseWithCallStack(r.cmd, r.rest[1]))
  ELSE Nothing

\* the callback of evaluate in evaluateOnCallFrame: whatever err holds, the
\* command is completed with a null error
onEvaluate(r, err, result) ==
  Callback(r.cmd, cmds[r.cmd], Null,
           IF ~Falsy(err)
           THEN [result |-> v8ErrorToInspectorError(err), wasThrown |-> TRUE]
           ELSE [result |-> v8ResultToInspectorResult(result), wasThrown |-> FALSE])

\* the callback of listbreakpoints in setBreakpointsActive
onActiveListBreakpoints(r, error, response) ==
  IF ~Falsy(error)
  THEN Callback(r.cmd, cmds[r.cmd], error, NoResult)
  ELSE LET bps == response.breakpoints
           params == cmds[r.cmd].params
           iterated == [i \in 1..Len(bps) |->
                          setBreakpointState(r.cmd, params, bps[i], RestAfter(bps, i))]
       IN EachSeries(bps, iterated, Callback(r.cmd, cmds[r.cmd], Undefined, NoResult))

\* mutation (C20): a failed change is passed over and the loop goes on
onChangeBreakpoint_IgnoreError(r, err, result) ==
  LET params == cmds[r.cmd].params
      iterated == [i \in 1..Len(r.rest) |->
                     setBreakpointState(r.cmd, params, r.rest[i], RestAfter(r.rest, i))]
  IN EachSeries(r.rest, iterated, Callback(r.cmd, cmds[r.cmd], Undefined, NoResult))

\* next(err) of the eachSeries in setBreakpointsActive: an error ends the loop
\* with done(err)
onChangeBreakpoint(r, err, result) ==
  LET params == cmds[r.cmd].params
      iterated == [i \in 1..Len(r.rest) |->
                     setBreakpointState(r.cmd, params, r.rest[i], RestAfter(r.rest, i))]
  IN IF ~Falsy(err)
     THEN Callback(r.cmd, cmds[r.cmd], err, NoResult)
     ELSE EachSeries(r.rest, iterated, Callback(r.cmd, cmds[r.cmd], Undefined, NoResult))

\* mutation (C19): the slot is written before the error is looked at
onContinueToSetBreakpoint_StoreFirst(r, error, response) ==
  LET id == IF NotNull(error) THEN 0 ELSE response.breakpoint
      store == [Eff(<<ContinueToEv(r.cmd, id)>>, <<>>) EXCEPT !.contTo = << <<id>> >>]
  IN IF NotNull(error)
     THEN Then(store, Callback(r.cmd, cmds[r.cmd], error, NoResult))
     ELSE Then(store, Request(r.cmd, "continue", NoResult, "continueToContinue", <<>>, 0))

\* the callback of setbreakpoint in continueToLocation
onContinueToSetBreakpoint(r, error, response) ==
  IF NotNull(error)
  THEN Callback(r.cmd, cmds[r.cmd], error, NoResult)
  ELSE Then([Eff(<<ContinueToEv(r.cmd, response.breakpoint)>>, <<>>)
               EXCEPT !.contTo = << <<response.breakpoint>> >>],
            Request(r.cmd, "continue", NoResult, "continueToContinue", <<>>, 0))

\* the callback of continue in continueToLocation
onContinueToContinue(r, error, response) ==
  Callback(r.cmd, cmds[r.cmd], error, NoResult)

\* the callback of setbreakpoint in setBreakpointByUrl
onSetBreakpointByUrl(r, error, response) ==
  IF NotNull(error)
  THEN Callback(r.cmd, cmds[r.cmd], error, NoResult)
  ELSE Callback(r.cmd, cmds[r.cmd], Null,
                [breakpointId |-> NumberToString(response.breakpoint),
                 locations |-> [i \in 1..Len(response.actual_locations) |->
                                  v8LocationToInspectorLocation(response.actual_locations[i])]])

\* the callback of listbreakpoints in _removeAllBreakpoints; its done() starts
\* the second task of the waterfall
onListBreakpoints(r, err, response) ==
  IF ~Falsy(err)
  THEN Then(Eff(<<LogEv(r.cmd, "Warning: cannot remove old breakpoints")>>, <<>>),
            reloadScripts(r.cmd, r.pl))
  ELSE LET bps == response.breakpoints
           removeOne == [i \in 1..Len(bps) |->
                           removeOneBreakpoint(r.cmd, r.pl, bps[i], RestAfter(bps, i))]
       IN EachSeries(bps, removeOne, reloadScripts(r.cmd, r.pl))

\* mutation (C7): a failed clear is handed to next(), which ends the loop and,
\* with it, the waterfall
onClearBreakpoint_StopOnError(r, error, response) ==
  LET removeOne == [i \in 1..Len(r.rest) |->
                      removeOneBreakpoint(r.cmd, r.pl, r.rest[i], RestAfter(r.rest, i))]
  IN IF ~Falsy(error)
     THEN Eff(<<LogEv(r.cmd, "Warning: cannot remove old breakpoint")>>, <<>>)
     ELSE EachSeries(r.rest, removeOne, reloadScripts(r.cmd, r.pl))

\* the callback of clearBreakpoint in removeOneBreakpoint: log, then next()
onClearBreakpoint(r, error, response) ==
  LET removeOne == [i \in 1..Len(r.rest) |->
                      removeOneBreakpoint(r.cmd, r.pl, r.rest[i], RestAfter(r.rest, i))]
  IN Then(IF ~Falsy(error)
          THEN Eff(<<LogEv(r.cmd, "Warning: cannot remove old breakpoint")>>, <<>>)
          ELSE Nothing,
          EachSeries(r.rest, removeOne, reloadScripts(r.cmd, r.pl)))

\* mutation (C8): the failure is dropped and the waterfall goes on
handleScriptsResponse_IgnoreError(r, err, result) ==
  IF ~Falsy(err)
  THEN sendBacktraceIfPaused(r.cmd, r.pl)
  ELSE Then(Eff([i \in 1..Len(result) |-> AddScriptEv(r.cmd, result[i])], <<>>),
            sendBacktraceIfPaused(r.cmd, r.pl))

\* handleScriptsResponse in _reloadScripts: done(err) ends the waterfall, which
\* has no final callback; done() starts its third task
handleScriptsResponse(r, err, result) ==
  IF ~Falsy(err)
  THEN Nothing
  ELSE Then(Eff([i \in 1..Len(result) |-> AddScriptEv(r.cmd, result[i])], <<>>),
            sendBacktraceIfPaused(r.cmd, r.pl))

\* mutation (C18): Debugger.resumed is sent whether or not the request failed
onContinue_AlwaysResumed(r, error, result) ==
  Then(Callback(r.cmd, cmds[r.cmd], error, NoResult),
       Eff(<<EventEv(r.cmd, "Debugger.resumed")>>, <<>>))

\* the callback of continue in _sendContinue
onContinue(r, error, result) ==
  Then(Callback(r.cmd, cmds[r.cmd], error, NoResult),
       IF Falsy(error) THEN Eff(<<EventEv(r.cmd, "Debugger.resumed")>>, <<>>)
       ELSE Nothing)

\* the callback of suspend in pause
onSuspend(r, error, result) ==
  Then(Callback(r.cmd, cmds[r.cmd], error, NoResult),
       IF Falsy(error) THEN Eff(<<BacktraceEv(r.cmd, Null)>>, <<>>) ELSE Nothing)

\* next(err) of the eachSeries in setPauseOnExceptions: an error ends the loop
\* with done(err)
onSetExceptionBreak(r, err, result) ==
  LET iterated == [i \in 1..Len(r.rest) |->
                     setExceptionBreak(r.cmd, r.rest[i], RestAfter(r.rest, i))]
  IN IF ~Falsy(err)
     THEN Callback(r.cmd, cmds[r.cmd], err, NoResult)
     ELSE EachSeries(r.rest, iterated, Callback(r.cmd, cmds[r.cmd], Undefined, NoResult))

\* the 'connect' listener of enable: done(), then _onDebuggerConnect()
connectListener(c, pl) ==
  [done |-> Callback(c, cmds[c], Undefined, NoResult), run |-> onDebuggerConnect(c, pl)]

\* method.call(agent, messageObject.params, callback)
CallMethod(c, cmd, methodName) ==
  Then(Eff(<<InvokeEv(c, methodName)>>, <<>>),
       CASE methodName = "canSetScriptSource" -> canSetScriptSource(c, cmd)
         [] methodName = "enable" -> enable(c, cmd)
         [] methodName = "disable" -> disable(c, cmd)
         [] methodName = "resume" -> resume(c, cmd)
         [] methodName = "pause" -> pause(c, cmd)
         [] methodName = "stepOver" -> stepOver(c, cmd)
         [] methodName = "stepInto" -> stepInto(c, cmd)
         [] methodName = "stepOut" -> stepOut(c, cmd)
         [] methodName = "setOverlayMessage" -> setOverlayMessage(c, cmd)
         [] methodName = "setPauseOnExceptions" -> setPauseOnExceptions(c, cmd)
         [] methodName = "setBreakpointByUrl" -> setBreakpointByUrl(c, cmd)
         [] methodName = "continueToLocation" -> continueToLocation(c, cmd)
         [] methodName = "setBreakpointsActive" -> setBreakpointsActive(c, cmd)
         [] methodName = "evaluateOnCallFrame" -> evaluateOnCallFrame(c, cmd)
         [] methodName = "setScriptSource" -> setScriptSource(c, cmd))

\* mutation (C3): the domain handler is consulted before the overrides
Dispatch_HandlerFirst(c, cmd) ==
  LET fullMethodName == cmd.method
      domainAndMethod == SplitName(fullMethodName)
      agent == Agent(domainAndMethod[1])
  IN IF agent # Undefined /\ TypeOfProp(agent, domainAndMethod[2]) = "function"
     THEN CallMethod(c, cmd, domainAndMethod[2])
     ELSE IF SpecialCommand(fullMethodName) # NoResult
     THEN Eff(HandleMethodResult(c, cmd.id, fullMethodName, Null,
                                 ResultOf(SpecialCommand(fullMethodName))), <<>>)
     ELSE Eff(<<LogEv(c, "Received request for an unknown domain or method")>>, <<>>)

\* handleCommand(messageObject), from the lookup to the return
Dispatch(c, cmd) ==
  LET fullMethodName == cmd.method
      domainAndMethod == SplitName(fullMethodName)
      domainName == domainAndMethod[1]
      methodName == domainAndMethod[2]
      agent == Agent(domainName)
  IN IF SpecialCommand(fullMethodName) # NoResult
     THEN Eff(HandleMethodResult(c, cmd.id, fullMethodName, Null,
                                 ResultOf(SpecialCommand(fullMethodName))), <<>>)
     ELSE IF agent = Undefined
     THEN Eff(<<LogEv(c, "Received request for an unknown domain")>>, <<>>)
     ELSE IF TypeOfProp(agent, methodName) # "function"
     THEN Eff(<<LogEv(c, "Received request for an unknown method")>>, <<>>)
     ELSE CallMethod(c, cmd, methodName)

\* -------------------------------------------------------------- the inputs
\* the ids a command may carry: none, 0, or a fresh positive number
CommandIds == [c \in 1..MaxCmds |-> {NoId, 0, c}]
\* the ids of the commands of a bootstrap: requests, numbered by the front end
RequestIds == [c \in 1..MaxCmds |-> {c}]

PauseStates == {"all", "uncaught", "none", "bogus"}

\* params.urlRegex: absent, null, or a string
UrlRegexes == {Undefined, Null, "", "a.*"}

ParamsOf(m) ==
  CASE m = "Debugger.setPauseOnExceptions" -> {[state |-> st] : st \in PauseStates}
    [] m = "Debugger.setBreakpointByUrl" ->
         {[url |-> "file:///a.js", lineNumber |-> 3, columnNumber |-> 0,
           condition |-> Undefined, urlRegex |-> re] : re \in UrlRegexes}
    [] m = "Debugger.continueToLocation" ->
         {[location |-> [scriptId |-> "7", lineNumber |-> 5, columnNumber |-> 0]]}
    [] m = "Debugger.setBreakpointsActive" -> {[active |-> a] : a \in BOOLEAN}
    [] m = "Debugger.evaluateOnCallFrame" ->
         {[expression |-> "x", callFrameId |-> f] : f \in {"0", "2"}}
    [] m = "Debugger.setScriptSource" -> {[scriptId |-> "7", scriptSource |-> "var x;"]}
    [] OTHER -> {NoParams}

DispatchMethods ==
  {"Network.enable", "Worker.canInspectWorkers", "toString", "Bogus.foo",
   "Debugger.bogus", "Debugger._frontendClient", "Debugger.canSetScriptSource",
   "Debugger.setOverlayMessage", "Debugger.pause"}
StepMethods ==
  {"Debugger.pause", "Debugger.resume", "Debugger.stepOver", "Debugger.stepInto",
   "Debugger.stepOut"}
BootMethods == {"Debugger.enable", "Debugger.disable"}
ExceptionMethods == {"Debugger.setPauseOnExceptions"}
BreakpointMethods == {"Debugger.setBreakpointByUrl", "Debugger.continueToLocation"}
ActiveMethods == {"Debugger.setBreakpointsActive"}
EvaluateMethods == {"Debugger.evaluateOnCallFrame"}
LiveEditMethods == {"Debugger.setScriptSource"}
AllMethods ==
  DispatchMethods \cup StepMethods \cup BootMethods \cup ExceptionMethods
    \cup BreakpointMethods \cup ActiveMethods \cup EvaluateMethods \cup LiveEditMethods

\* the names an operator may override after construction
NoopNames == {"Debugger.pause"}
QueryNames == {"Debugger.canSetScriptSource"}
QueryResults == {[result |-> FALSE]}

\* the backend's answers
BreakpointLists == {[i \in 1..n |-> [number |-> i]] : n \in 0..MaxBps}
ScriptLists == {[i \in 1..n |-> [id |-> i]] : n \in 0..MaxScripts}
Errors == {Undefined, BackendError}
\* the err of an evaluate callback: none, the message of an expression that
\* threw (an unsuccessful response), or a failure of the request itself
EvaluateErrors == {Undefined, ThrownMessage, BackendError}
EvaluateResults == {[type |-> "number", value |-> 42]}
\* the answers to changelive: unchanged, stack modified, and step-in required,
\* which the backend reports together with stack modified
ChangeLiveResponses ==
  {[result |-> [stack_modified |-> m, stack_update_needs_step_in |-> n]] :
     m \in BOOLEAN, n \in BOOLEAN} \
  {[result |-> [stack_modified |-> FALSE, stack_update_needs_step_in |-> TRUE]]}
\* the call frames the break notifier fetches: the whole stack
FrameLists == {[i \in 1..MaxFrames |-> [callFrameId |-> NumberToString(i - 1)]]}
\* the answers to setbreakpoint: the new breakpoint and where it actually landed
LocationLists ==
  {[i \in 1..n |-> [script_id |-> 10 + i, line |-> 3 + i, column |-> 0]] : n \in 0..MaxLocs}
SetBreakpointResponses ==
  {[breakpoint |-> b, actual_locations |-> l] : b \in {1, 12}, l \in LocationLists}

RECURSIVE Concat(_)
Concat(ss) == IF ss = <<>> THEN <<>> ELSE Head(ss) \o Concat(Tail(ss))

\* -------------------------------------------------------------- the actions
Init ==
  /\ specialCommands = InitialSpecialCommands
  /\ agents = InitialAgents
  /\ cmds = <<>>
  /\ trace = <<>>
  /\ boot = <<>>
  /\ pending = {}
  /\ listeners = <<>>
  /\ connectCalls = 0
  /\ connected = FALSE
  /\ isRunning \in BOOLEAN
  /\ callbackForNextBreak = <<>>
  /\ continueToLocationBreakpointId = <<>>

\* _registerNoopCommands(names...)
RegisterNoopCommands ==
  /\ \E names \in SUBSET NoopNames \ {{}} :
       specialCommands' =
         [m \in DOMAIN specialCommands \cup names |->
            IF m \in names THEN NoopEntry ELSE specialCommands[m]]
  /\ UNCHANGED <<agents, cmds, trace, boot, pending, listeners, connectCalls,
                 connected, isRunning, callbackForNextBreak,
                 continueToLocationBreakpointId>>

\* _registerQuery(fullMethodName, result)
RegisterQuery ==
  /\ \E m \in QueryNames, result \in QueryResults :
       specialCommands' =
         [n \in DOMAIN specialCommands \cup {m} |->
            IF n = m THEN QueryEntry(result) ELSE specialCommands[n]]
  /\ UNCHANGED <<agents, cmds, trace, boot, pending, listeners, connectCalls,
                 connected, isRunning, callbackForNextBreak,
                 continueToLocationBreakpointId>>

\* handleCommand(messageObject) for a command of the given methods; the fields
\* override and handler record what the tables held when it was dispatched
HandleCommand(methods, ids) ==
  /\ Len(cmds) < MaxCmds
  /\ \E m \in methods :
     \E params \in ParamsOf(m) :
     \E id \in ids[Len(cmds) + 1] :
       LET c == Len(cmds) + 1
           cmd == [id |-> id, method |-> m, params |-> params,
                   override |-> IF m \in DOMAIN specialCommands
                                THEN specialCommands[m] ELSE NoResult,
                   handler |-> IF SplitName(m)[1] \in DOMAIN agents
                               THEN TypeOfProp(agents[SplitName(m)[1]], SplitName(m)[2])
                               ELSE Undefined]
       IN /\ cmds' = Append(cmds, cmd)
          /\ Apply(c, Dispatch(c, cmd), NoRequest)
  /\ UNCHANGED <<specialCommands, agents, isRunning>>

\* the 'connect' notifications so far: every enable added one listener and
\* called connect() once
Connects == Len(listeners) - connectCalls

\* the wire client emits 'connect': every listener runs, in the order added
EmitConnect ==
  /\ connectCalls > 0
  /\ connectCalls' = connectCalls - 1
  /\ connected' = TRUE
  /\ LET n == Len(listeners)
         run(j) == connectListener(listeners[j], Len(boot) + j)
         dones(c) == Concat([j \in 1..n |->
                              IF listeners[j] = c THEN run(j).done.ev ELSE <<>>])
     IN /\ trace' = [c \in DOMAIN trace |-> trace[c] \o dones(c)]
        /\ boot' = boot \o [j \in 1..n |->
                              [cmd |-> listeners[j], connect |-> Connects + 1,
                               hist |-> NumberEv(run(j).run.ev, 0)]]
        /\ pending' = pending \cup UNION {NumberRq(run(j).run.rq, 0) : j \in 1..n}
  /\ UNCHANGED <<specialCommands, agents, cmds, listeners, isRunning,
                 callbackForNextBreak, continueToLocationBreakpointId>>

\* the same, while the bootstrap runs it starts stay within the bound
EmitConnectBounded ==
  /\ Len(boot) + Len(listeners) <= MaxRuns
  /\ EmitConnect

\* the debugged program stops at a breakpoint, or runs on, by itself
BackendRunStateChange ==
  /\ isRunning' = ~isRunning
  /\ UNCHANGED <<specialCommands, agents, cmds, trace, boot, pending, listeners,
                 connectCalls, connected, callbackForNextBreak,
                 continueToLocationBreakpointId>>

\* the callback a request was issued with
CallbackOf(r, err, body) ==
  CASE r.k = "rmList" -> onListBreakpoints(r, err, body)
    [] r.k = "rmOne" -> onClearBreakpoint(r, err, body)
    [] r.k = "reload" -> handleScriptsResponse(r, err, body)
    [] r.k = "continue" -> onContinue(r, err, body)
    [] r.k = "suspend" -> onSuspend(r, err, body)
    [] r.k = "setexceptionbreak" -> onSetExceptionBreak(r, err, body)
    [] r.k = "setBreakpointByUrl" -> onSetBreakpointByUrl(r, err, body)
    [] r.k = "continueToLocation" -> onContinueToSetBreakpoint(r, err, body)
    [] r.k = "continueToContinue" -> onContinueToContinue(r, err, body)
    [] r.k = "setBreakpointsActive" -> onActiveListBreakpoints(r, err, body)
    [] r.k = "changebreakpoint" -> onChangeBreakpoint(r, err, body)
    [] r.k = "evaluate" -> onEvaluate(r, err, body)
    [] r.k = "changelive" -> handleChangeLiveResponse(r, err, body)
    [] r.k = "fetchCallFrames" -> onFetchCallFrames(r, err, body)
    [] r.k = "liveStep" -> onLiveStep(r, err, body)

\* the wire client answers a request of a command, and its callback runs
Answer(k, Bodies) ==
  /\ \E r \in pending :
       /\ r.k = k
       /\ \E err \in Errors :
          \E body \in (IF err = Undefined THEN Bodies ELSE {NoResult}) :
            Apply(r.cmd, Then(Eff(<<ReplyEv(r, err, body)>>, <<>>), CallbackOf(r, err, body)), r)
  /\ UNCHANGED <<specialCommands, agents, cmds, isRunning>>

\* the same for a request of a bootstrap run
AnswerBoot(k, Bodies) ==
  /\ \E r \in pending :
       /\ r.k = k
       /\ \E err \in Errors :
          \E body \in (IF err = Undefined THEN Bodies ELSE {NoResult}) :
            ApplyBoot(Then(Eff(<<ReplyEv(r, err, body)>>, <<>>), CallbackOf(r, err, body)), r)
  /\ UNCHANGED <<specialCommands, agents, cmds, isRunning>>

ListBreakpointsReply ==
  AnswerBoot("rmList", {[breakpoints |-> l] : l \in BreakpointLists})
ClearBreakpointReply == AnswerBoot("rmOne", {NoResult})
ScriptsReply == AnswerBoot("reload", ScriptLists)
ContinueReply == Answer("continue", {NoResult})
SuspendReply == Answer("suspend", {NoResult})
SetExceptionBreakReply == Answer("setexceptionbreak", {NoResult})
SetBreakpointByUrlReply == Answer("setBreakpointByUrl", SetBreakpointResponses)
ContinueToSetBreakpointReply == Answer("continueToLocation", SetBreakpointResponses)
ContinueToContinueReply == Answer("continueToContinue", {NoResult})
ActiveListBreakpointsReply ==
  Answer("setBreakpointsActive", {[breakpoints |-> l] : l \in BreakpointLists})
ChangeBreakpointReply == Answer("changebreakpoint", {NoResult})

\* the wire client answers an evaluate request
EvaluateReply ==
  /\ \E r \in pending :
       /\ r.k = "evaluate"
       /\ \E err \in EvaluateErrors :
          \E body \in (IF err = Undefined THEN EvaluateResults ELSE {NoResult}) :
            Apply(r.cmd, Then(Eff(<<ReplyEv(r, err, body)>>, <<>>), CallbackOf(r, err, body)), r)
  /\ UNCHANGED <<specialCommands, agents, cmds, isRunning>>

DispatchCommand == HandleCommand(DispatchMethods, CommandIds)
StepCommand == HandleCommand(StepMethods, CommandIds)
BootCommand == HandleCommand(BootMethods, RequestIds)
ExceptionCommand == HandleCommand(ExceptionMethods, CommandIds)
BreakpointCommand == HandleCommand(BreakpointMethods, RequestIds)
ActiveCommand == HandleCommand(ActiveMethods, RequestIds)
EvaluateCommand == HandleCommand(EvaluateMethods, CommandIds)
LiveEditCommand == HandleCommand(LiveEditMethods, RequestIds)
ConnectCommand == HandleCommand(BootMethods, CommandIds)

ChangeLiveReply == Answer("changelive", ChangeLiveResponses)
LiveStepReply == Answer("liveStep", {NoResult})
FetchCallFramesReply == Answer("fetchCallFrames", FrameLists)

\* the backend pauses and the break notifier finds callbackForNextBreak set: it
\* empties the slot and calls the callback, which is sendResponseWithCallStack()
BreakEvent ==
  /\ callbackForNextBreak # <<>>
  /\ LET cb == callbackForNextBreak[1]
     IN Apply(cb.cmd,
              Then([Eff(<<BreakEv(cb.cmd)>>, <<>>) EXCEPT !.arm = << <<>> >>],
                   sendResponseWithCallStack(cb.cmd, cb.response)),
              NoRequest)
  /\ isRunning' = FALSE
  /\ UNCHANGED <<specialCommands, agents, cmds>>
AnyCommand == HandleCommand(AllMethods, CommandIds)

\* the dispatcher, with overrides registered at any time
NextDispatch ==
  \/ RegisterNoopCommands
  \/ RegisterQuery
  \/ DispatchCommand
  \/ SuspendReply
SpecDispatch == Init /\ [][NextDispatch]_vars

\* pause, resume and the steps
NextStep ==
  \/ StepCommand
  \/ ContinueReply
  \/ SuspendReply
SpecStep == Init /\ [][NextStep]_vars

\* enable, disable and the connect-time bootstrap
NextBoot ==
  \/ BootCommand
  \/ EmitConnectBounded
  \/ BackendRunStateChange
  \/ ListBreakpointsReply
  \/ ClearBreakpointReply
  \/ ScriptsReply
SpecBoot == Init /\ [][NextBoot]_vars

\* setPauseOnExceptions
NextException ==
  \/ ExceptionCommand
  \/ SetExceptionBreakReply
SpecException == Init /\ [][NextException]_vars

\* setting breakpoints
NextBreakpoint ==
  \/ BreakpointCommand
  \/ SetBreakpointByUrlReply
  \/ ContinueToSetBreakpointReply
  \/ ContinueToContinueReply
SpecBreakpoint == Init /\ [][NextBreakpoint]_vars

\* muting and unmuting the breakpoints
NextActive ==
  \/ ActiveCommand
  \/ ActiveListBreakpointsReply
  \/ ChangeBreakpointReply
SpecActive == Init /\ [][NextActive]_vars

\* evaluating expressions
NextEvaluate ==
  \/ EvaluateCommand
  \/ EvaluateReply
SpecEvaluate == Init /\ [][NextEvaluate]_vars

\* live edit
NextLiveEdit ==
  \/ LiveEditCommand
  \/ ChangeLiveReply
  \/ LiveStepReply
  \/ FetchCallFramesReply
  \/ BreakEvent
SpecLiveEdit == Init /\ [][NextLiveEdit]_vars

\* enable, disable and the 'connect' notifications, however many
NextConnect ==
  \/ ConnectCommand
  \/ EmitConnect
  \/ BackendRunStateChange
SpecConnect == Init /\ [][NextConnect]_vars

\* everything together
Next ==
  \/ RegisterNoopCommands
  \/ RegisterQuery
  \/ AnyCommand
  \/ EmitConnect
  \/ BackendRunStateChange
  \/ ListBreakpointsReply
  \/ ClearBreakpointReply
  \/ ScriptsReply
  \/ ContinueReply
  \/ SuspendReply
  \/ SetExceptionBreakReply
  \/ SetBreakpointByUrlReply
  \/ ContinueToSetBreakpointReply
  \/ ContinueToContinueReply
  \/ ActiveListBreakpointsReply
  \/ ChangeBreakpointReply
  \/ EvaluateReply
  \/ ChangeLiveReply
  \/ LiveStepReply
  \/ FetchCallFramesReply
  \/ BreakEvent
Spec == Init /\ [][Next]_vars

\* ------------------------------------------------- reading the histories
Requests(h, name) == {i \in Kind(h, "request") : h[i].name = name}
Replies(h, name) == {i \in Kind(h, "reply") : h[i].name = name}
\* the replies without / with an error
Successes(h, name) == {i \in Replies(h, name) : Falsy(h[i].err)}
Failures(h, name) == {i \in Replies(h, name) : ~Falsy(h[i].err)}
\* the reply to the request at index i of h, if it came
ReplyTo(h, i) == {j \in Kind(h, "reply") : h[j].rid = h[i].rid}
\* the indices of S in increasing order
RECURSIVE Sorted(_)
Sorted(S) ==
  IF S = {} THEN <<>>
  ELSE LET m == CHOOSE x \in S : \A y \in S : x <= y IN <<m>> \o Sorted(S \ {m})
\* the requests of command c (of bootstrap run pl) the wire client still holds
PendingOf(c) == {r \in pending : r.cmd = c /\ r.pl = 0}
PendingOfRun(pl) == {r \in pending : r.pl = pl}
Commands == DOMAIN trace
\* the command resolved to an override or to a method of a registered handler
Resolves(c) == cmds[c].override # NoResult \/ cmds[c].handler = "function"

\* ------------------------------------------------------------- the claims
ResponsesTo(c) == {i \in Kind(trace[c], "response") : trace[c][i].id = cmds[c].id}

\* C1: every command that carries an id (0 included) and resolves to an
\* override or to a method of a registered handler gets exactly one response
\* with that id: never two, and one once no request of it is outstanding.
C1_ExactlyOneResponse ==
  \A c \in Commands :
    (cmds[c].id # NoId /\ Resolves(c)) =>
      /\ Cardinality(ResponsesTo(c)) <= 1
      /\ PendingOf(c) = {} => Cardinality(ResponsesTo(c)) = 1

\* C2: a command without an id never gets a response, whether it hits an
\* override or a handler method, and whatever the handler completes with.
C2_NoResponseWithoutId ==
  \A c \in Commands : cmds[c].id = NoId => Kind(trace[c], "response") = {}

\* two id-less commands were completed by their handler, one with a result and
\* one with an error
C2_Witness ==
  \E c1, c2 \in Commands :
    /\ cmds[c1].id = NoId /\ cmds[c2].id = NoId
    /\ \E i \in Kind(trace[c1], "done") : trace[c1][i].result = [result |-> TRUE]
    /\ \E i \in Kind(trace[c2], "done") : trace[c2][i].error = BackendError

\* C3: a command whose full method name has an override entry invokes no
\* handler method and issues no backend request, even when a registered handler
\* has a function of that name; a response to it carries a null error and the
\* entry's fixed result (none for a no-op), and there is exactly one when the
\* id is one the dispatcher answers.
C3_OverrideWins ==
  \A c \in Commands :
    cmds[c].override # NoResult =>
      /\ Kind(trace[c], "invoke") = {}
      /\ Kind(trace[c], "request") = {}
      /\ \A i \in Kind(trace[c], "response") :
           /\ trace[c][i].id = cmds[c].id
           /\ trace[c][i].error = Null
           /\ trace[c][i].result = cmds[c].override.result
      /\ ~FalsyId(cmds[c].id) => Cardinality(Kind(trace[c], "response")) = 1

\* Debugger.pause was dispatched with an id while both an override entry and
\* the handler's pause function existed, and it was answered
C3_Witness ==
  \E c \in Commands :
    /\ cmds[c].method = "Debugger.pause"
    /\ cmds[c].override = NoopEntry
    /\ cmds[c].handler = "function"
    /\ ~FalsyId(cmds[c].id)
    /\ Kind(trace[c], "response") # {}

\* C4: a command with no override entry whose domain has no registered
\* handler, or whose method is no function of the handler, gets no response,
\* invokes no handler method and issues no backend request.
C4_UnroutableDropped ==
  \A c \in Commands :
    ~Resolves(c) =>
      /\ Kind(trace[c], "response") = {}
      /\ Kind(trace[c], "invoke") = {}
      /\ Kind(trace[c], "request") = {}

\* what C4 says of the names that Object.prototype does not hold
C4_OrdinaryNamesDropped ==
  \A c \in Commands :
    (~Resolves(c) /\ cmds[c].method \notin ObjectPrototypeProps) =>
      /\ Kind(trace[c], "response") = {}
      /\ Kind(trace[c], "invoke") = {}
      /\ Kind(trace[c], "request") = {}
      /\ Cardinality(Kind(trace[c], "log")) = 1

\* C5: a Debugger.pause command with an id whose suspend request succeeds
\* triggers exactly one pause notification (null frame filter) and gets exactly
\* one response, the notification strictly before the response.
C5_PauseNotifiesBeforeResponse ==
  \A c \in Commands :
    (/\ cmds[c].method = "Debugger.pause"
     /\ cmds[c].id # NoId
     /\ Successes(trace[c], "suspend") # {}) =>
      /\ Cardinality(Kind(trace[c], "backtrace")) = 1
      /\ \A i \in Kind(trace[c], "backtrace") : trace[c][i].filter = Null
      /\ Cardinality(ResponsesTo(c)) = 1
      /\ \A i \in Kind(trace[c], "backtrace") : \A j \in ResponsesTo(c) : i < j

\* the step action each command hands to _sendContinue
StepActionOf(m) ==
  CASE m = "Debugger.resume" -> NoResult
    [] m = "Debugger.stepOver" -> [stepaction |-> "next"]
    [] m = "Debugger.stepInto" -> [stepaction |-> "in"]
    [] m = "Debugger.stepOut" -> [stepaction |-> "out"]
ContinueMethods ==
  {"Debugger.resume", "Debugger.stepOver", "Debugger.stepInto", "Debugger.stepOut"}

\* C6: resume, stepOver, stepInto and stepOut each issue exactly one continue
\* request carrying their step action, and when it succeeds Debugger.resumed is
\* sent before the command's completion callback runs.
C6_ResumedBeforeCompletion ==
  \A c \in Commands :
    cmds[c].method \in ContinueMethods =>
      /\ Cardinality(Requests(trace[c], "continue")) = 1
      /\ \A i \in Requests(trace[c], "continue") :
           trace[c][i].arg = StepActionOf(cmds[c].method)
      /\ Successes(trace[c], "continue") # {} =>
           /\ \E i \in Kind(trace[c], "event") : trace[c][i].method = "Debugger.resumed"
           /\ \A i \in Kind(trace[c], "event") : \A j \in Kind(trace[c], "done") : i < j

\* what C6 says of the requests alone
C6_OneContinueRequest ==
  \A c \in Commands :
    cmds[c].method \in ContinueMethods =>
      /\ Cardinality(Requests(trace[c], "continue")) = 1
      /\ \A i \in Requests(trace[c], "continue") :
           trace[c][i].arg = StepActionOf(cmds[c].method)

\* the breakpoints a bootstrap run was told of
Listed(h) == h[CHOOSE i \in Successes(h, "listbreakpoints") : TRUE].body.breakpoints

\* C7: when listbreakpoints lists N breakpoints, a bootstrap run issues exactly
\* N clearbreakpoint requests, one per listed breakpoint and in list order, never
\* two outstanding, each issued after the one before it was answered, all N
\* answered before the scripts request is issued; a failed clear does not stop
\* the run.
C7_SerialClears ==
  \A pl \in DOMAIN boot :
    LET h == boot[pl].hist
        clears == Sorted(Requests(h, "clearbreakpoint"))
    IN Successes(h, "listbreakpoints") # {} =>
         /\ Len(clears) <= Len(Listed(h))
         /\ \A j \in 1..Len(clears) :
              h[clears[j]].arg = [breakpoint |-> Listed(h)[j].number]
         /\ \A j \in 1..(Len(clears) - 1) :
              \E k \in ReplyTo(h, clears[j]) : k < clears[j + 1]
         /\ Cardinality({r \in PendingOfRun(pl) : r.name = "clearbreakpoint"}) <= 1
         /\ \A q \in Requests(h, "scripts") :
              /\ Len(clears) = Len(Listed(h))
              /\ \A j \in 1..Len(clears) : \E k \in ReplyTo(h, clears[j]) : k < q
         /\ PendingOfRun(pl) = {} => Requests(h, "scripts") # {}

\* a run was told of as many breakpoints as the bound allows, its first clear
\* failed, and it has issued the scripts request
C7_Witness ==
  \E pl \in DOMAIN boot :
    LET h == boot[pl].hist
        clears == Sorted(Requests(h, "clearbreakpoint"))
    IN /\ Successes(h, "listbreakpoints") # {}
       /\ Len(Listed(h)) = MaxBps
       /\ MaxBps >= 2
       /\ Len(clears) = MaxBps
       /\ \E k \in ReplyTo(h, clears[1]) : ~Falsy(h[k].err)
       /\ Requests(h, "scripts") # {}

\* C8: in a bootstrap run the registry is reset and the scripts request issued
\* only after the clearing step has finished; the paused-state check runs only
\* after the scripts reply was processed and every returned script added; a
\* pause notification (null frame filter) follows the check exactly when the
\* backend is not running then; after a failed scripts request the check never
\* runs and no script is added.
C8_BootstrapOrder ==
  \A pl \in DOMAIN boot :
    LET h == boot[pl].hist
        adds == Sorted(Kind(h, "addScript"))
    IN /\ \A i \in Kind(h, "reset") \cup Requests(h, "scripts") :
            /\ \E j \in Replies(h, "listbreakpoints") : j < i
            /\ \A q \in Requests(h, "clearbreakpoint") :
                 q < i /\ \E k \in ReplyTo(h, q) : k < i
       /\ \A i \in Requests(h, "scripts") : i > 1 /\ h[i - 1].kind = "reset"
       /\ Cardinality(Kind(h, "reset")) <= 1
       /\ Cardinality(Requests(h, "scripts")) = Cardinality(Kind(h, "reset"))
       /\ \A j \in Successes(h, "scripts") :
            /\ Len(adds) = Len(h[j].body)
            /\ \A a \in 1..Len(adds) :
                 adds[a] = j + a /\ h[adds[a]].script = h[j].body[a]
            /\ Kind(h, "isRunning") = {j + Len(adds) + 1}
       /\ \A i \in Kind(h, "isRunning") :
            /\ Successes(h, "scripts") # {}
            /\ ~h[i].running <=>
                 (i < Len(h) /\ h[i + 1].kind = "backtrace" /\ h[i + 1].filter = Null)
       /\ \A i \in Kind(h, "backtrace") : i > 1 /\ h[i - 1].kind = "isRunning"
       /\ Failures(h, "scripts") # {} =>
            /\ Kind(h, "isRunning") = {}
            /\ Kind(h, "backtrace") = {}
            /\ Kind(h, "addScript") = {}

\* a run cleared a breakpoint, added as many scripts as the bound allows and,
\* the backend being paused, sent the pause notification
C8_Witness ==
  \E pl \in DOMAIN boot :
    LET h == boot[pl].hist
    IN /\ Replies(h, "clearbreakpoint") # {}
       /\ MaxScripts >= 1
       /\ Cardinality(Kind(h, "addScript")) = MaxScripts
       /\ Kind(h, "backtrace") # {}

\* C9: a failure of the bootstrap's scripts request reaches the enable call:
\* the enable command is completed with that error and answered with it, and
\* not completed without an error.
C9_ScriptsFailurePropagated ==
  \A pl \in DOMAIN boot :
    LET h == boot[pl].hist
        t == trace[boot[pl].cmd]
    IN \A i \in Failures(h, "scripts") :
         /\ \E j \in Kind(t, "done") : t[j].error = h[i].err
         /\ \E j \in Kind(t, "response") : t[j].error = h[i].err
         /\ \A j \in Kind(t, "done") : ~Falsy(t[j].error)

\* the flags the claim gives for each state
ExpectedFlags(st) ==
  CASE st = "all" -> <<TRUE, FALSE>>
    [] st = "uncaught" -> <<FALSE, TRUE>>
    [] OTHER -> <<FALSE, FALSE>>

\* C10: setPauseOnExceptions sends setexceptionbreak for category all, then,
\* only after that succeeded, for category uncaught, with the flags of its
\* state (all: true/false, uncaught: false/true, anything else: false/false),
\* never both true; when the first request fails the second is never issued
\* and the command completes, once, with that error.
C10_ExceptionBreakSequence ==
  \A c \in Commands :
    cmds[c].method = "Debugger.setPauseOnExceptions" =>
      LET h == trace[c]
          reqs == Sorted(Requests(h, "setexceptionbreak"))
          flags == ExpectedFlags(cmds[c].params.state)
          dones == Kind(h, "done")
      IN /\ Len(reqs) \in {1, 2}
         /\ h[reqs[1]].arg = [type |-> "all", enabled |-> flags[1]]
         /\ Len(reqs) = 2 =>
              /\ h[reqs[2]].arg = [type |-> "uncaught", enabled |-> flags[2]]
              /\ \E k \in ReplyTo(h, reqs[1]) : k < reqs[2] /\ Falsy(h[k].err)
         /\ Cardinality({i \in Requests(h, "setexceptionbreak") : h[i].arg.enabled}) <= 1
         /\ \A k \in ReplyTo(h, reqs[1]) :
              IF Falsy(h[k].err)
              THEN Len(reqs) = 2
              ELSE /\ Len(reqs) = 1
                   /\ Cardinality(dones) = 1
                   /\ \A d \in dones : d > k /\ h[d].error = h[k].err
         /\ Cardinality(dones) <= 1
         /\ PendingOf(c) = {} <=> dones # {}
         /\ Len(reqs) = 2 =>
              \A k \in ReplyTo(h, reqs[2]) : \A d \in dones : d > k /\ h[d].error = h[k].err

\* one command sent both requests for state uncaught and completed without
\* error, another one's first request failed and it completed with the error
C10_Witness ==
  \E c1, c2 \in Commands :
    /\ cmds[c1].method = "Debugger.setPauseOnExceptions"
    /\ cmds[c1].params.state = "uncaught"
    /\ Cardinality(Requests(trace[c1], "setexceptionbreak")) = 2
    /\ \E d \in Kind(trace[c1], "done") : Falsy(trace[c1][d].error)
    /\ cmds[c2].method = "Debugger.setPauseOnExceptions"
    /\ Cardinality(Requests(trace[c2], "setexceptionbreak")) = 1
    /\ \E d \in Kind(trace[c2], "done") : trace[c2][d].error = BackendError

\* the diagnostic _handleMethodResult logs for a result it discards
DiscardedLogs(h) == {j \in Kind(h, "log") : h[j].msg = "Warning: discarded result"}

\* C14: when a handler method completes a command without an id with a result,
\* exactly one discarded-result diagnostic is logged and no response is sent;
\* when it completes it without a result, no such diagnostic is logged.
C14_DiscardedResultLogged ==
  \A c \in Commands :
    (cmds[c].id = NoId /\ cmds[c].override = NoResult) =>
      \A d \in Kind(trace[c], "done") :
        /\ Kind(trace[c], "response") = {}
        /\ IF trace[c][d].result # NoResult
           THEN Cardinality(DiscardedLogs(trace[c])) = 1
           ELSE DiscardedLogs(trace[c]) = {}

\* what C14 says of a completion without a result
C14_NoLogWithoutResult ==
  \A c \in Commands :
    (cmds[c].id = NoId /\ cmds[c].override = NoResult) =>
      \A d \in Kind(trace[c], "done") :
        /\ Kind(trace[c], "response") = {}
        /\ trace[c][d].result = NoResult => DiscardedLogs(trace[c]) = {}

\* C18: when the continue request of resume, stepOver, stepInto or stepOut, or
\* the suspend request of pause, fails, the command is completed once, with the
\* error of the reply and no result, any response to it carries that error, and
\* neither Debugger.resumed nor a pause notification is sent for it.
C18_PrimaryFailurePassedThrough ==
  \A c \in Commands :
    cmds[c].method \in StepMethods =>
      LET h == trace[c]
      IN \A k \in Failures(h, "continue") \cup Failures(h, "suspend") :
           /\ Cardinality(Kind(h, "done")) = 1
           /\ \A d \in Kind(h, "done") :
                d > k /\ h[d].error = h[k].err /\ h[d].result = NoResult
           /\ \A i \in Kind(h, "response") :
                i > k /\ h[i].id = cmds[c].id /\ h[i].error = h[k].err
           /\ Cardinality(Kind(h, "response")) <= 1
           /\ Kind(h, "event") = {}
           /\ Kind(h, "backtrace") = {}

\* a resume and a pause, both with an id, had their request fail and were
\* answered with the error
C18_Witness ==
  \E c1, c2 \in Commands :
    /\ cmds[c1].method = "Debugger.resume" /\ cmds[c2].method = "Debugger.pause"
    /\ Failures(trace[c1], "continue") # {} /\ Failures(trace[c2], "suspend") # {}
    /\ \E i \in Kind(trace[c1], "response") : trace[c1][i].error = BackendError
    /\ \E i \in Kind(trace[c2], "response") : trace[c2][i].error = BackendError

\* C11: setBreakpointByUrl with params.urlRegex present (null and '' included)
\* issues no backend request and is completed exactly once, with an error and no
\* result; without urlRegex it issues exactly one setbreakpoint request and, when
\* that succeeds, is completed once without error, with the backend's breakpoint
\* id as a decimal string and one front-end location per actual location.
C11_SetBreakpointByUrl ==
  \A c \in Commands :
    cmds[c].method = "Debugger.setBreakpointByUrl" =>
      LET h == trace[c]
          dones == Kind(h, "done")
      IN IF cmds[c].params.urlRegex # Undefined
         THEN /\ Kind(h, "request") = {}
              /\ PendingOf(c) = {}
              /\ Cardinality(dones) = 1
              /\ \A d \in dones : NotNull(h[d].error) /\ h[d].result = NoResult
         ELSE /\ Cardinality(Kind(h, "request")) = 1
              /\ Cardinality(Requests(h, "setbreakpoint")) = 1
              /\ Cardinality(dones) <= 1
              /\ \A k \in Successes(h, "setbreakpoint") :
                   /\ Cardinality(dones) = 1
                   /\ \A d \in dones :
                        /\ d > k
                        /\ ~NotNull(h[d].error)
                        /\ h[d].result.breakpointId = NumberToString(h[k].body.breakpoint)
                        /\ Len(h[d].result.locations) = Len(h[k].body.actual_locations)
                        /\ \A i \in 1..Len(h[d].result.locations) :
                             h[d].result.locations[i] =
                               v8LocationToInspectorLocation(h[k].body.actual_locations[i])

\* one command carried a null urlRegex and was completed; another, without
\* urlRegex, was completed after the backend reported breakpoint 12 at as many
\* locations as the bound allows
C11_Witness ==
  \E c1, c2 \in Commands :
    /\ cmds[c1].method = "Debugger.setBreakpointByUrl"
    /\ cmds[c1].params.urlRegex = Null
    /\ Kind(trace[c1], "done") # {}
    /\ cmds[c2].method = "Debugger.setBreakpointByUrl"
    /\ cmds[c2].params.urlRegex = Undefined
    /\ \E d \in Kind(trace[c2], "done") :
         /\ trace[c2][d].result # NoResult
         /\ trace[c2][d].result.breakpointId = "12"
         /\ MaxLocs >= 2
         /\ Len(trace[c2][d].result.locations) = MaxLocs

\* C19: continueToLocation issues a setbreakpoint request first; only after it
\* succeeded is the returned breakpoint id stored in the continue-to slot, and
\* then one plain continue request is issued, whose outcome completes the
\* command; when setbreakpoint fails the command is completed with that error,
\* it writes nothing to the slot and issues no continue request.
C19_ContinueToLocation ==
  /\ \A c \in Commands :
       cmds[c].method = "Debugger.continueToLocation" =>
         LET h == trace[c]
             dones == Kind(h, "done")
         IN /\ Cardinality(Requests(h, "setbreakpoint")) = 1
            /\ \A q \in Kind(h, "request") \cup Kind(h, "continueTo") :
                 \E s \in Requests(h, "setbreakpoint") : s <= q
            /\ Cardinality(Requests(h, "continue")) <= 1
            /\ Cardinality(Kind(h, "continueTo")) <= 1
            /\ Cardinality(dones) <= 1
            /\ \A k \in Successes(h, "setbreakpoint") :
                 /\ h[k + 1] = ContinueToEv(c, h[k].body.breakpoint)
                 /\ h[k + 2].kind = "request" /\ h[k + 2].name = "continue"
                 /\ h[k + 2].arg = NoResult
                 /\ \A d \in dones : \E j \in Replies(h, "continue") : j < d
            /\ \A e \in Kind(h, "continueTo") \cup Requests(h, "continue") :
                 \E k \in Successes(h, "setbreakpoint") : k < e
            /\ \A j \in Replies(h, "continue") :
                 /\ Cardinality(dones) = 1
                 /\ \A d \in dones : d > j /\ h[d].error = h[j].err
            /\ \A k \in Failures(h, "setbreakpoint") :
                 /\ Cardinality(dones) = 1
                 /\ \A d \in dones : d > k /\ h[d].error = h[k].err
                 /\ Kind(h, "continueTo") = {}
                 /\ Requests(h, "continue") = {}
  /\ IF \A c \in Commands : Kind(trace[c], "continueTo") = {}
     THEN continueToLocationBreakpointId = <<>>
     ELSE \E c \in Commands : \E i \in Kind(trace[c], "continueTo") :
            continueToLocationBreakpointId = <<trace[c][i].id>>

\* what C19 says of the slot, step by step: the step in which a setbreakpoint
\* request of continueToLocation is answered with an error leaves the slot as
\* it was, and the step in which it succeeds stores the returned id
C19_SlotWrittenOnSuccessOnly ==
  [][\A c \in Commands :
       (c \in DOMAIN trace' /\ cmds[c].method = "Debugger.continueToLocation") =>
         /\ Failures(trace'[c], "setbreakpoint") # Failures(trace[c], "setbreakpoint") =>
              continueToLocationBreakpointId' = continueToLocationBreakpointId
         /\ \A k \in Successes(trace'[c], "setbreakpoint") \ Successes(trace[c], "setbreakpoint") :
              continueToLocationBreakpointId' = <<trace'[c][k].body.breakpoint>>]_vars

\* one command's setbreakpoint succeeded with breakpoint 12, which is in the
\* slot, and its continue failed; another's setbreakpoint failed
C19_Witness ==
  \E c1, c2 \in Commands :
    /\ cmds[c1].method = "Debugger.continueToLocation"
    /\ cmds[c2].method = "Debugger.continueToLocation"
    /\ continueToLocationBreakpointId = <<12>>
    /\ Failures(trace[c1], "continue") # {}
    /\ \E d \in Kind(trace[c1], "done") : trace[c1][d].error = BackendError
    /\ Failures(trace[c2], "setbreakpoint") # {}
    /\ Kind(trace[c2], "done") # {}

\* C20: setBreakpointsActive issues one listbreakpoints request and then one
\* changebreakpoint request per listed breakpoint, in list order, each carrying
\* the requested active flag and each issued after the one before it succeeded,
\* never two outstanding; the command is completed once: without error only
\* after the last change succeeded, with the error of a failed listbreakpoints
\* (and no change request at all), or with the error of the first failed
\* change (and no change request after it).
C20_SerialToggle ==
  \A c \in Commands :
    cmds[c].method = "Debugger.setBreakpointsActive" =>
      LET h == trace[c]
          dones == Kind(h, "done")
          changes == Sorted(Requests(h, "changebreakpoint"))
      IN /\ Cardinality(Requests(h, "listbreakpoints")) = 1
         /\ \A q \in Requests(h, "changebreakpoint") :
              \E k \in Successes(h, "listbreakpoints") : k < q
         /\ Cardinality({r \in PendingOf(c) : r.name = "changebreakpoint"}) <= 1
         /\ Cardinality(dones) <= 1
         /\ PendingOf(c) = {} <=> dones # {}
         /\ \A k \in Failures(h, "listbreakpoints") :
              /\ changes = <<>>
              /\ \A d \in dones : d > k /\ h[d].error = h[k].err
         /\ Successes(h, "listbreakpoints") # {} =>
              /\ Len(changes) <= Len(Listed(h))
              /\ \A j \in 1..Len(changes) :
                   h[changes[j]].arg = [breakpoint |-> Listed(h)[j].number,
                                        enabled |-> cmds[c].params.active]
              /\ \A j \in 1..(Len(changes) - 1) :
                   \E k \in ReplyTo(h, changes[j]) : k < changes[j + 1] /\ Falsy(h[k].err)
              /\ \A d \in dones :
                   \/ /\ Falsy(h[d].error)
                      /\ Len(changes) = Len(Listed(h))
                      /\ \A j \in 1..Len(changes) :
                           \E k \in ReplyTo(h, changes[j]) : k < d /\ Falsy(h[k].err)
                   \/ /\ Len(changes) >= 1
                      /\ \E k \in ReplyTo(h, changes[Len(changes)]) :
                           k < d /\ ~Falsy(h[k].err) /\ h[d].error = h[k].err
         /\ \A k \in Failures(h, "changebreakpoint") :
              /\ \A q \in Requests(h, "changebreakpoint") : q < k
              /\ Cardinality(dones) = 1

\* one command toggled as many breakpoints as the bound allows and completed
\* without error; another's first change failed while more were listed, and it
\* completed with the error
C20_Witness ==
  \E c1, c2 \in Commands :
    /\ cmds[c1].method = "Debugger.setBreakpointsActive"
    /\ cmds[c2].method = "Debugger.setBreakpointsActive"
    /\ MaxBps >= 2
    /\ Cardinality(Successes(trace[c1], "changebreakpoint")) = MaxBps
    /\ \E d \in Kind(trace[c1], "done") : Falsy(trace[c1][d].error)
    /\ Successes(trace[c2], "listbreakpoints") # {}
    /\ Len(Listed(trace[c2])) = MaxBps
    /\ Cardinality(Requests(trace[c2], "changebreakpoint")) = 1
    /\ \E d \in Kind(trace[c2], "done") : trace[c2][d].error = BackendError

\* C13: evaluateOnCallFrame issues one evaluate request for the frame index its
\* call-frame id spells; a reply that reports a thrown expression completes the
\* command without error and with wasThrown true, a value completes it without
\* error and with wasThrown false, and a failure of the request itself
\* completes it with that failure as its error.
C13_EvaluateOutcome ==
  \A c \in Commands :
    cmds[c].method = "Debugger.evaluateOnCallFrame" =>
      LET h == trace[c]
          dones == Kind(h, "done")
      IN /\ Cardinality(Kind(h, "request")) = 1
         /\ \A q \in Requests(h, "evaluate") :
              /\ h[q].arg.expression = cmds[c].params.expression
              /\ cmds[c].params.callFrameId = "0" => h[q].arg.frame = 0
              /\ cmds[c].params.callFrameId = "2" => h[q].arg.frame = 2
         /\ \A k \in Replies(h, "evaluate") :
              /\ Cardinality(dones) = 1
              /\ \A d \in dones :
                   /\ d > k
                   /\ h[k].err = Undefined =>
                        ~NotNull(h[d].error) /\ h[d].result.wasThrown = FALSE
                   /\ h[k].err = ThrownMessage =>
                        ~NotNull(h[d].error) /\ h[d].result.wasThrown = TRUE
                   /\ h[k].err = BackendError => h[d].error = BackendError

\* what C13 says of the replies the backend sends: a value and a thrown
\* expression both complete the command without error, told apart by wasThrown
C13_ThrownIsResult ==
  \A c \in Commands :
    cmds[c].method = "Debugger.evaluateOnCallFrame" =>
      LET h == trace[c]
          dones == Kind(h, "done")
      IN /\ Cardinality(Kind(h, "request")) = 1
         /\ \A q \in Requests(h, "evaluate") :
              /\ h[q].arg.expression = cmds[c].params.expression
              /\ cmds[c].params.callFrameId = "0" => h[q].arg.frame = 0
              /\ cmds[c].params.callFrameId = "2" => h[q].arg.frame = 2
         /\ \A k \in Replies(h, "evaluate") :
              /\ Cardinality(dones) = 1
              /\ \A d \in dones :
                   /\ d > k
                   /\ ~NotNull(h[d].error)
                   /\ h[d].result.wasThrown = (h[k].err # Undefined)

\* the changelive response command c got, and the path it selects
ChangeLiveResult(h) == h[CHOOSE k \in Successes(h, "changelive") : TRUE].body.result
StepInRequired(h) ==
  Successes(h, "changelive") # {} /\ ChangeLiveResult(h).stack_update_needs_step_in
StackModified(h) ==
  /\ Successes(h, "changelive") # {}
  /\ ~ChangeLiveResult(h).stack_update_needs_step_in
  /\ ChangeLiveResult(h).stack_modified
Unchanged(h) ==
  /\ Successes(h, "changelive") # {}
  /\ ~ChangeLiveResult(h).stack_update_needs_step_in
  /\ ~ChangeLiveResult(h).stack_modified
\* the completion at d carries the frames of the fetch answered just before it
\* (none when the fetch failed) and the raw changelive result
CompletesWithFetch(h, d) ==
  /\ h[d].error = Null
  /\ h[d].result.result = ChangeLiveResult(h)
  /\ \E f \in Replies(h, "fetchCallFrames") :
       /\ f < d
       /\ \A i \in (f + 1)..(d - 1) : h[i].kind = "console"
       /\ h[d].result.callFrames = (IF Falsy(h[f].err) THEN h[f].body ELSE <<>>)

\* the three paths of setScriptSource; on the step-in path the deferral of the
\* completion is asked of the commands in `deferred`
LiveEditPaths(deferred) ==
  \A c \in Commands :
    cmds[c].method = "Debugger.setScriptSource" =>
      LET h == trace[c]
          dones == Kind(h, "done")
          fetches == Requests(h, "fetchCallFrames")
          steps == Requests(h, "continue")
          breaks == Kind(h, "break")
          arms == Kind(h, "arm")
          answered == Replies(h, "fetchCallFrames") # {}
      IN /\ Cardinality(Requests(h, "changelive")) = 1
         /\ Cardinality(Replies(h, "changelive")) <= 1
         /\ Successes(h, "changelive") = {} =>
              fetches = {} /\ steps = {} /\ arms = {}
         /\ \A k \in Successes(h, "changelive") :
              LET res == h[k].body.result
              IN \* unchanged
                 /\ (~res.stack_update_needs_step_in /\ ~res.stack_modified) =>
                      /\ dones = {k + 1}
                      /\ h[k + 1].error = Null
                      /\ h[k + 1].result = [callFrames |-> <<>>, result |-> res]
                      /\ fetches = {} /\ steps = {} /\ arms = {}
                 \* stack modified
                 /\ (~res.stack_update_needs_step_in /\ res.stack_modified) =>
                      /\ fetches = {k + 1}
                      /\ steps = {} /\ arms = {}
                      /\ Cardinality(dones) <= 1
                      /\ \A d \in dones : CompletesWithFetch(h, d)
                      /\ answered => dones # {}
                 \* step-in required
                 /\ res.stack_update_needs_step_in =>
                      /\ arms = {k + 1}
                      /\ steps = {k + 2}
                      /\ h[k + 2].arg = [stepAction |-> "in"]
                      /\ \A b \in breaks : b > k + 2 /\ b + 1 \in fetches
                      /\ c \in deferred =>
                           /\ Cardinality(breaks) = Cardinality(fetches)
                           /\ Cardinality(dones) <= 1
                           /\ \A d \in dones :
                                /\ \E b \in breaks : b < d
                                /\ CompletesWithFetch(h, d)
                           /\ answered => dones # {}

C15_StepFailureCompletesOnce ==
  \A c \in Commands :
    cmds[c].method = "Debugger.setScriptSource" =>
      LET h == trace[c]
          dones == Kind(h, "done")
      IN \A k \in Failures(h, "continue") :
           /\ h[k + 1].kind = "console" /\ h[k + 1].level = "error"
           /\ h[k + 2].kind = "request" /\ h[k + 2].name = "fetchCallFrames"
           /\ \A d \in dones : CompletesWithFetch(h, d)
           /\ (\E f \in ReplyTo(h, k + 2) : TRUE) => dones # {}
           /\ Cardinality(dones) <= 1

\* what C15 says short of the single completion
C15_LoggedAndCompleted ==
  \A c \in Commands :
    cmds[c].method = "Debugger.setScriptSource" =>
      LET h == trace[c]
          dones == Kind(h, "done")
      IN \A k \in Failures(h, "continue") :
           /\ h[k + 1].kind = "console" /\ h[k + 1].level = "error"
           /\ h[k + 2].kind = "request" /\ h[k + 2].name = "fetchCallFrames"
           /\ \A d \in dones : CompletesWithFetch(h, d)
           /\ (\E f \in ReplyTo(h, k + 2) : TRUE) => dones # {}

\* the callbacks that were overwritten in the slot while pending
Overwritten ==
  {d \in Commands :
     \E c \in Commands : \E i \in Kind(trace[c], "arm") :
       \E j \in 1..Len(trace[c][i].over) : trace[c][i].over[j].cmd = d}

\* C17: the next-pause slot holds one callback at most; when a second
\* setScriptSource arms it while the callback of a first is pending, the slot
\* holds the second's only: a pause calls the callback of the command that armed
\* last, never that of a command whose callback was overwritten, and such a
\* command is completed through a failed continue request only.
C17_SecondArmOverwrites ==
  LET over == Overwritten IN
  /\ Len(callbackForNextBreak) <= 1
  /\ \A i \in 1..Len(callbackForNextBreak) :
       LET c == callbackForNextBreak[i].cmd
       IN /\ c \notin over
          /\ Kind(trace[c], "arm") # {}
          /\ Kind(trace[c], "break") = {}
  /\ \A c \in Commands :
       /\ \A i \in Kind(trace[c], "arm") : Len(trace[c][i].over) <= 1
       /\ c \in over =>
            /\ Kind(trace[c], "break") = {}
            /\ Failures(trace[c], "continue") = {} => Kind(trace[c], "done") = {}

\* the second command armed the slot while the first one's callback was pending,
\* both continue requests succeeded, a pause fired and completed the second; the
\* first is not completed
C17_Witness ==
  \E c1, c2 \in Commands :
    /\ c1 # c2
    /\ \E i \in Kind(trace[c2], "arm") :
         trace[c2][i].over # <<>> /\ trace[c2][i].over[1].cmd = c1
    /\ Successes(trace[c1], "continue") # {}
    /\ Successes(trace[c2], "continue") # {}
    /\ Kind(trace[c2], "break") # {}
    /\ Kind(trace[c2], "done") # {}
    /\ Kind(trace[c1], "done") = {}
    /\ PendingOf(c1) = {}

\* C16: at a 'connect' notification every Debugger.enable command is completed
\* at most once, over all notifications, and exactly one bootstrap run is
\* started for each notification, so that no two runs of one notification go on
\* side by side; whatever enable and disable commands and reconnects came
\* before.
C16_OneBootstrapPerConnect ==
  /\ \A c \in Commands :
       cmds[c].method = "Debugger.enable" => Cardinality(Kind(trace[c], "done")) <= 1
  /\ \A n \in 1..Connects :
       Cardinality({pl \in DOMAIN boot : boot[pl].connect = n}) = 1

\* what C16 says of the completions alone
C16_EnableCompletedOnce ==
  \A c \in Commands :
    cmds[c].method = "Debugger.enable" => Cardinality(Kind(trace[c], "done")) <= 1

\* what C16 says of the first notification after a single enable
C16_FirstConnectStartsOneRun ==
  (Len(listeners) = 1 /\ Connects = 1) =>
    /\ Len(boot) = 1
    /\ Cardinality(Kind(trace[boot[1].cmd], "done")) = 1

====
